---- MODULE Spec2Model ----
(***************************************************************************)
(* Onboarding checkpoint engine of iguanas/sfg: the checkpoint registry,   *)
(* the completeness guards, the extraction merge, and the HTTP handlers    *)
(* that move a session between checkpoints (checkpoint route, message      *)
(* route, session route), over the session / history / message stores.     *)
(***************************************************************************)
EXTENDS Integers, Sequences, FiniteSets, TLC

VARIABLES
    sessions,      \* onboardingSession rows: id -> [exists, currentCheckpoint, checkpointData, completedAt]
    history,       \* checkpointHistory rows per session, in creation order
    messageCount,  \* number of message rows per session (USER, ASSISTANT alternate)
    clientStatus,  \* status of the one client record
    last,          \* the last request handled and its response
    actor,         \* the xstate actor: state value and context
    evCheckpoint,  \* guard evaluation: checkpoint under evaluation
    evData,        \* guard evaluation: data bag under evaluation
    evResult,      \* guard evaluation: results of the guard functions
    mergeExisting, \* merge evaluation: the existing data bag
    mergeIncoming, \* merge evaluation: the newData argument
    mergeResult,   \* merge evaluation: results of mergeExtractedData
    writer,        \* a request in the middle of its store writes
    service,       \* the OnboardingStateService: its actor reference and save timer
    chat,          \* message rows per session and the history last handed to the provider
    inflight       \* two chat-message requests between their read of the session and their writes

vars ==
    <<sessions, history, messageCount, clientStatus, last, actor, evCheckpoint, evData,
      evResult, mergeExisting, mergeIncoming, mergeResult, writer, service, chat, inflight>>
storeVars == <<sessions, history, messageCount, clientStatus>>
mergeVars == <<mergeExisting, mergeIncoming, mergeResult>>
evalVars == <<evCheckpoint, evData, evResult, mergeVars, writer, service, chat, inflight>>

----------------------------------------------------------------------------
(* Bounds of the model *)

MaxHistory == 3    \* history rows a session may hold
MaxChats == 1      \* chat messages a session may be sent

SessionIds == {"s1"}

----------------------------------------------------------------------------
(* JSON values as tagged records: t is the typeof/kind tag, s the text of a *)
(* string or boolean, a the elements of an array, o the fields of a nested  *)
(* object (an absent field holds the undefined scalar).  An object also has *)
(* a: the index-keyed properties it holds after a spread of an array.       *)

SubKeys == {"street", "city", "state", "zip", "greeted", "clientName"}

ScUndef == [t |-> "undefined"]
ScNull == [t |-> "null"]
ScStr(x) == [t |-> "string", s |-> x]
ScBool(b) == [t |-> "boolean", s |-> IF b THEN "true" ELSE "false"]
NoFields == [k \in SubKeys |-> ScUndef]

Undef == [t |-> "undefined"]
Null == [t |-> "null"]
Str(x) == [t |-> "string", s |-> x]
Bool(b) == [t |-> "boolean", s |-> IF b THEN "true" ELSE "false"]
Arr(xs) == [t |-> "array", a |-> xs]
Obj(f) == [t |-> "object", a |-> <<>>, o |-> f]

\* JavaScript truthiness of a value (scalars and containers alike)
Truthy(v) ==
    CASE v.t = "undefined" -> FALSE
      [] v.t = "null" -> FALSE
      [] v.t = "boolean" -> v.s = "true"
      [] v.t = "string" -> v.s # ""
      [] OTHER -> TRUE

\* value === true
IsTrue(v) == v.t = "boolean" /\ v.s = "true"

\* value === undefined || value === null || value === ''
IsBlank(v) == v.t = "undefined" \/ v.t = "null" \/ (v.t = "string" /\ v.s = "")

\* value?.field : undefined unless value is an object holding the field
Field(v, k) == IF v.t = "object" THEN v.o[k] ELSE ScUndef

\* Object.keys(value).length for a nested object (index keys and named fields)
KeyCount(v) == Len(v.a) + Cardinality({k \in SubKeys : v.o[k].t # "undefined"})

Keys == {"welcome", "greeted", "businessName", "email", "phone", "address", "services",
         "domainStatus", "gbpStatus", "photoStatus", "confirmed"}

EmptyBag == [k \in Keys |-> Undef]

----------------------------------------------------------------------------
(* Checkpoint registry *)

checkpointOrder ==
    <<"WELCOME", "BUSINESS_INFO", "DOMAIN_ACCESS", "GBP", "PHOTOS", "REVIEW", "COMPLETED">>

Checkpoints == {checkpointOrder[i] : i \in 1..Len(checkpointOrder)}

\* Array.prototype.indexOf over checkpointOrder, 0-based, -1 when absent
indexOf(c) ==
    IF c \in Checkpoints
    THEN (CHOOSE i \in 1..Len(checkpointOrder) : checkpointOrder[i] = c) - 1
    ELSE -1

\* checkpointOrder[i] with a 0-based index
orderAt(i) == checkpointOrder[i + 1]

getRequiredFields(checkpoint) ==
    CASE checkpoint = "WELCOME" -> <<"greeted">>
      [] checkpoint = "BUSINESS_INFO" -> <<"businessName", "email", "phone", "address", "services">>
      [] checkpoint = "DOMAIN_ACCESS" -> <<"domainStatus">>
      [] checkpoint = "GBP" -> <<"gbpStatus">>
      [] checkpoint = "PHOTOS" -> <<"photoStatus">>
      [] checkpoint = "REVIEW" -> <<"confirmed">>
      [] OTHER -> <<>>

\* CHECKPOINT_REQUIREMENTS[checkpoint].required of the prompt tables
promptRequired(checkpoint) ==
    CASE checkpoint = "WELCOME" -> <<"greeted">>
      [] checkpoint = "BUSINESS_INFO" -> <<"businessName", "phone", "email", "address", "services">>
      [] checkpoint = "DOMAIN_ACCESS" -> <<"domainStatus">>
      [] checkpoint = "GBP" -> <<"gbpStatus">>
      [] checkpoint = "PHOTOS" -> <<"photoStatus">>
      [] checkpoint = "REVIEW" -> <<"confirmed">>
      [] OTHER -> <<>>

----------------------------------------------------------------------------
(* Completeness guards of the state machine *)

isWelcomeComplete(data) == IsTrue(data["greeted"])

isBusinessInfoComplete(data) ==
    /\ Truthy(data["businessName"])
    /\ Truthy(data["email"])
    /\ Truthy(data["phone"])
    /\ Truthy(Field(data["address"], "street"))
    /\ Truthy(Field(data["address"], "city"))
    /\ Truthy(Field(data["address"], "state"))
    /\ Truthy(Field(data["address"], "zip"))
    /\ Truthy(data["services"])
    /\ \/ (data["services"].t = "array" /\ Len(data["services"].a) >= 1)
       \/ data["services"].t = "string"

isDomainAccessComplete(data) ==
    /\ data["domainStatus"].t = "string"
    /\ data["domainStatus"].s \in {"has_domain", "needs_new", "no_domain"}

isGbpComplete(data) ==
    /\ data["gbpStatus"].t = "string"
    /\ data["gbpStatus"].s \in {"found", "not_found", "needs_creation"}

isPhotosComplete(data) ==
    /\ data["photoStatus"].t = "string"
    /\ data["photoStatus"].s \in {"uploaded", "deferred"}

isReviewComplete(data) == IsTrue(data["confirmed"])

canAdvance(checkpoint, data) ==
    CASE checkpoint = "WELCOME" -> isWelcomeComplete(data)
      [] checkpoint = "BUSINESS_INFO" -> isBusinessInfoComplete(data)
      [] checkpoint = "DOMAIN_ACCESS" -> isDomainAccessComplete(data)
      [] checkpoint = "GBP" -> isGbpComplete(data)
      [] checkpoint = "PHOTOS" -> isPhotosComplete(data)
      [] checkpoint = "REVIEW" -> isReviewComplete(data)
      [] OTHER -> FALSE

\* the test getMissingFields applies to one required field
fieldMissing(field, data) ==
    CASE field = "address" ->
            \/ ~Truthy(Field(data["address"], "street"))
            \/ ~Truthy(Field(data["address"], "city"))
            \/ ~Truthy(Field(data["address"], "state"))
            \/ ~Truthy(Field(data["address"], "zip"))
      [] field = "services" ->
            \/ ~Truthy(data["services"])
            \/ (data["services"].t = "array" /\ Len(data["services"].a) = 0)
      [] OTHER -> IsBlank(data[field])

RECURSIVE filterMissing(_, _)
filterMissing(required, data) ==
    IF required = <<>> THEN <<>>
    ELSE (IF fieldMissing(Head(required), data) THEN <<Head(required)>> ELSE <<>>)
         \o filterMissing(Tail(required), data)

getMissingFields(checkpoint, data) == filterMissing(getRequiredFields(checkpoint), data)

\* faulty variant of getCompletionPercentage: GBP has the percentage of DOMAIN_ACCESS
getCompletionPercentageFlat(checkpoint) ==
    CASE checkpoint = "WELCOME" -> 0
      [] checkpoint = "BUSINESS_INFO" -> 17
      [] checkpoint = "DOMAIN_ACCESS" -> 34
      [] checkpoint = "GBP" -> 34
      [] checkpoint = "PHOTOS" -> 67
      [] checkpoint = "REVIEW" -> 84
      [] checkpoint = "COMPLETED" -> 100
      [] OTHER -> 0

\* percentages[checkpoint] || 0
getCompletionPercentage(checkpoint) ==
    CASE checkpoint = "WELCOME" -> 0
      [] checkpoint = "BUSINESS_INFO" -> 17
      [] checkpoint = "DOMAIN_ACCESS" -> 34
      [] checkpoint = "GBP" -> 50
      [] checkpoint = "PHOTOS" -> 67
      [] checkpoint = "REVIEW" -> 84
      [] checkpoint = "COMPLETED" -> 100
      [] OTHER -> 0

----------------------------------------------------------------------------
(* Completeness check of the conversation orchestrator (prompt tables) *)

\* the per-field test shared by isCheckpointComplete and the prompt getMissingFields
promptFieldPresent(value) ==
    IF value.t = "array" THEN Len(value.a) > 0
    ELSE IF value.t = "object" THEN KeyCount(value) > 0
    ELSE ~IsBlank(value)

isCheckpointComplete(checkpoint, data) ==
    IF checkpoint \notin Checkpoints THEN TRUE
    ELSE \A i \in 1..Len(promptRequired(checkpoint)) :
            promptFieldPresent(data[promptRequired(checkpoint)[i]])

\* getMissingFields of the prompt tables: the required fields of
\* CHECKPOINT_REQUIREMENTS that fail the per-field test, in table order
RECURSIVE promptFilterMissing(_, _)
promptFilterMissing(required, data) ==
    IF required = <<>> THEN <<>>
    ELSE (IF promptFieldPresent(data[Head(required)]) THEN <<>> ELSE <<Head(required)>>)
         \o promptFilterMissing(Tail(required), data)

promptGetMissingFields(checkpoint, data) ==
    promptFilterMissing(promptRequired(checkpoint), data)

getNextCheckpoint(current) ==
    IF indexOf(current) = -1 \/ indexOf(current) = Len(checkpointOrder) - 1
    THEN "COMPLETED"
    ELSE orderAt(indexOf(current) + 1)

----------------------------------------------------------------------------
(* Data merging *)

\* faulty variant of setOrder: repeated elements are kept
setOrderKeepAll(xs, seen) == xs

\* [...new Set(xs)] : the elements of xs in first-seen order, duplicates removed
RECURSIVE setOrder(_, _)
setOrder(xs, seen) ==
    IF xs = <<>> THEN <<>>
    ELSE IF Head(xs) \in seen THEN setOrder(Tail(xs), seen)
    ELSE <<Head(xs)>> \o setOrder(Tail(xs), seen \cup {Head(xs)})

\* faulty variant of mergeFields: an incoming null field overrides
mergeFieldsNullOverrides(existing, newData) ==
    [k \in SubKeys |-> IF newData[k].t = "undefined" THEN existing[k] ELSE newData[k]]

\* the recursive call on a nested object: its fields are scalars, so every
\* non-null incoming field overrides
mergeFields(existing, newData) ==
    [k \in SubKeys |->
        IF newData[k].t \in {"undefined", "null"} THEN existing[k] ELSE newData[k]]

\* { ...existing } followed by the index-keyed entries of the incoming object:
\* an incoming entry replaces the existing one at its index
mergeIndexed(existing, newData) ==
    [i \in 1..(IF Len(newData) > Len(existing) THEN Len(newData) ELSE Len(existing)) |->
        IF i <= Len(newData) THEN newData[i] ELSE existing[i]]

\* faulty variant of mergeArrays: the incoming elements come first
mergeArraysIncomingFirst(existingArray, value) == setOrder(value \o existingArray, {})

\* faulty variant of mergeArrays: plain concatenation
mergeArraysConcat(existingArray, value) == existingArray \o value

\* [...new Set([...existingArray, ...value])]
mergeArrays(existingArray, value) == setOrder(existingArray \o value, {})

\* one iteration of the loop of mergeExtractedData: merged[key] after value is folded in
mergeValue(old, value) ==
    IF value.t \in {"undefined", "null"} THEN old
    ELSE IF value.t = "array" /\ old.t = "array"
        THEN Arr(mergeArrays(old.a, value.a))
    ELSE IF value.t = "object" /\ old.t \in {"object", "array", "null"}
        \* typeof null and typeof [] are 'object' too; {...old} keeps an
        \* array's elements as index-keyed properties (field a of the result)
        THEN [t |-> "object",
              a |-> mergeIndexed(IF old.t = "null" THEN <<>> ELSE old.a, value.a),
              o |-> mergeFields(IF old.t = "object" THEN old.o ELSE NoFields, value.o)]
    ELSE value

\* faulty variant of mergeExtractedData: the new data replaces the bag
mergeExtractedDataReplaces(existing, newData) ==
    IF ~newData.present THEN existing ELSE newData.bag

\* faulty variant of mergeExtractedData: the new data is dropped
mergeExtractedDataKeepsExisting(existing, newData) == existing

\* newData is [present, bag]; present = FALSE stands for null
mergeExtractedData(existing, newData) ==
    IF ~newData.present THEN existing
    ELSE [k \in Keys |-> mergeValue(existing[k], newData.bag[k])]

\* { ...checkpointData, ...data } : every key of data replaces the key of checkpointData
Spread(checkpointData, data) ==
    [k \in Keys |-> IF data[k].t # "undefined" THEN data[k] ELSE checkpointData[k]]

\* JSON.parse(JSON.stringify(data)) : keys holding undefined are dropped
JsonClone(data) == [k \in Keys |-> IF data[k].t = "undefined" THEN Undef ELSE data[k]]

----------------------------------------------------------------------------
(* Request inputs *)

FullAddress ==
    Obj([NoFields EXCEPT !["street"] = ScStr("1 Main"), !["city"] = ScStr("X"),
                         !["state"] = ScStr("CA"), !["zip"] = ScStr("90001")])
StreetOnly == Obj([NoFields EXCEPT !["street"] = ScStr("1 Main")])

Greeted == [EmptyBag EXCEPT !["greeted"] = Bool(TRUE)]
NotGreeted == [EmptyBag EXCEPT !["greeted"] = Bool(FALSE)]
BusinessRecord ==
    [EmptyBag EXCEPT !["businessName"] = Str("Acme"), !["email"] = Str("a@b.com"),
                     !["phone"] = Str("555-1212"), !["address"] = FullAddress,
                     !["services"] = Arr(<<"plumbing">>)]
PartialBusiness == [BusinessRecord EXCEPT !["address"] = StreetOnly]
Statuses ==
    [EmptyBag EXCEPT !["domainStatus"] = Str("has_domain"), !["gbpStatus"] = Str("found"),
                     !["photoStatus"] = Str("uploaded")]
Confirmed == [EmptyBag EXCEPT !["confirmed"] = Bool(TRUE)]
ConfirmedYes == [EmptyBag EXCEPT !["confirmed"] = Str("yes")]

NoData == [present |-> FALSE, bag |-> EmptyBag]
Data(bag) == [present |-> TRUE, bag |-> bag]

\* the data patches a next request may carry, and those the other actions may
NextPatches ==
    {NoData, Data(Greeted), Data(NotGreeted), Data(BusinessRecord), Data(Statuses),
     Data(Confirmed), Data(ConfirmedYes)}
BackPatches == {NoData}
CompletePatches == {NoData, Data(Confirmed), Data(ConfirmedYes)}

\* goto targets: checkpoints before, at and after the current one, an unknown
\* name, and no target
Targets == {"WELCOME", "BUSINESS_INFO", "PHOTOS", "COMPLETED", "PAYMENT", ""}

\* goto requests: every target without data, and two that carry a patch
GotoRequests ==
    [target : Targets, data : {NoData}]
    \cup {[target |-> "", data |-> Data(Confirmed)],
          [target |-> "WELCOME", data |-> Data(PartialBusiness)]}

\* checkpointData of a freshly created session
InitialData ==
    [EmptyBag EXCEPT !["welcome"] =
        Obj([NoFields EXCEPT !["greeted"] = ScBool(FALSE), !["clientName"] = ScStr("Pat")])]

NoSession ==
    [exists |-> FALSE, currentCheckpoint |-> "WELCOME", checkpointData |-> EmptyBag,
     completedAt |-> FALSE]

\* the merge results before mergeExtractedData has been called
NoMerge ==
    [done |-> FALSE, once |-> EmptyBag, twice |-> EmptyBag, self |-> EmptyBag,
     patched |-> EmptyBag]

\* the guard results before the guards have been called
NoResult ==
    [done |-> FALSE, canAdvance |-> FALSE, missingFields |-> <<>>,
     isCheckpointComplete |-> FALSE, promptMissingFields |-> <<>>,
     completionPercentage |-> 0,
     route |-> [action \in {"next", "back", "complete"} |-> ""],
     machine |-> [type \in {"NEXT", "BACK", "COMPLETE"} |-> ""]]

\* the handler that ran last (op, action, sid) and the HTTP status it answered
NoRequest == [op |-> "none", action |-> "", sid |-> "", status |-> 0]

\* no request is in the middle of its writes: writes are the store writes
\* still to be made, done counts those made, crashed tells whether a request
\* of this run was interrupted
NoWriter == [sid |-> "", writes |-> <<>>, done |-> 0, request |-> NoRequest, crashed |-> FALSE]

\* new OnboardingStateService(sessionId): actor tells whether this.actor is
\* set, timer whether saveDebounceTimer is pending, state is the snapshot the
\* pending callback was created with, sent tells whether the actor has taken
\* an event
NoService ==
    [actor |-> FALSE, timer |-> FALSE, sent |-> FALSE,
     state |-> [value |-> "welcome", checkpointData |-> EmptyBag, messageCount |-> 0]]

\* two sessions, none of them with a message row, and no history handed to
\* the provider yet
TwoSessions == {"s1", "s2"}
NoChat == [messages |-> [sid \in TwoSessions |-> 0], sid |-> "", handed |-> <<>>]

----------------------------------------------------------------------------
(* History store *)

\* prisma.checkpointHistory.create({ sessionId, checkpoint }) : a new open entry
historyCreate(h, checkpoint) ==
    Append(h, [checkpoint |-> checkpoint, exitedAt |-> FALSE, data |-> EmptyBag])

\* prisma.checkpointHistory.updateMany : every open entry of the checkpoint is
\* given an exit time and the data snapshot
\* faulty variant of historyExit: the entries are closed without the snapshot
historyExitWithoutData(h, checkpoint, data) ==
    [i \in DOMAIN h |->
        IF h[i].checkpoint = checkpoint /\ ~h[i].exitedAt
        THEN [h[i] EXCEPT !.exitedAt = TRUE]
        ELSE h[i]]

historyExit(h, checkpoint, data) ==
    [i \in DOMAIN h |->
        IF h[i].checkpoint = checkpoint /\ ~h[i].exitedAt
        THEN [h[i] EXCEPT !.exitedAt = TRUE, !.data = data]
        ELSE h[i]]

\* faulty variant of whereSession: the write selects the rows of every session
whereAnySession(sessionId, id) == TRUE

\* where: { id: sessionId } and where: { sessionId, ... } : the rows a write
\* of the handlers selects
whereSession(sessionId, id) == id = sessionId

\* the table after the rows selected for sessionId were given the value
updateWhere(table, sessionId, value) ==
    [id \in DOMAIN table |-> IF whereSession(sessionId, id) THEN value ELSE table[id]]

----------------------------------------------------------------------------
(* POST /api/onboarding/checkpoint : next | back | goto | complete *)

\* faulty variant of backAllowed: back is refused at the second checkpoint too
backAllowedAboveSecond(currentIndex) == currentIndex > 1

backAllowed(currentIndex) == currentIndex > 0

\* faulty variant of gotoAllowed: the current checkpoint itself is refused
gotoAllowedStrictlyBefore(targetIndex, currentIndex, currentCheckpoint) ==
    targetIndex < currentIndex \/ currentCheckpoint = "REVIEW"

gotoAllowed(targetIndex, currentIndex, currentCheckpoint) ==
    targetIndex <= currentIndex \/ currentCheckpoint = "REVIEW"

completeAllowed(currentCheckpoint) == currentCheckpoint = "REVIEW"

completeConfirmed(checkpointData) == Truthy(checkpointData["confirmed"])

Moved(newCheckpoint) ==
    [status |-> 200, error |-> "", newCheckpoint |-> newCheckpoint, transitioned |-> TRUE]
Stayed(currentCheckpoint) ==
    [status |-> 200, error |-> "", newCheckpoint |-> currentCheckpoint, transitioned |-> FALSE]
Rejected(currentCheckpoint, error) ==
    [status |-> 400, error |-> error, newCheckpoint |-> currentCheckpoint, transitioned |-> FALSE]

\* the switch (action) of the handler
transitionSwitch(currentCheckpoint, checkpointData, action, target) ==
    LET currentIndex == indexOf(currentCheckpoint) IN
    CASE action = "next" ->
            IF ~canAdvance(currentCheckpoint, checkpointData)
            THEN Rejected(currentCheckpoint, "Cannot advance: missing required fields")
            ELSE IF currentIndex < Len(checkpointOrder) - 1
            THEN Moved(orderAt(currentIndex + 1))
            ELSE Stayed(currentCheckpoint)
      [] action = "back" ->
            IF backAllowed(currentIndex)
            THEN Moved(orderAt(currentIndex - 1))
            ELSE Stayed(currentCheckpoint)
      [] action = "goto" ->
            IF target # "" /\ target \in Checkpoints
            THEN IF gotoAllowed(indexOf(target), currentIndex, currentCheckpoint)
                 THEN Moved(target)
                 ELSE Rejected(currentCheckpoint, "Cannot skip ahead to future checkpoints")
            ELSE Stayed(currentCheckpoint)
      [] action = "complete" ->
            IF ~completeAllowed(currentCheckpoint)
            THEN Rejected(currentCheckpoint, "Can only complete from REVIEW checkpoint")
            ELSE IF ~completeConfirmed(checkpointData)
            THEN Rejected(currentCheckpoint, "Must confirm before completing")
            ELSE Moved("COMPLETED")

\* the history writes of an accepted transition
transitionHistory(h, currentCheckpoint, newCheckpoint, checkpointData) ==
    IF newCheckpoint # currentCheckpoint
    THEN historyExit(historyCreate(h, newCheckpoint), currentCheckpoint, JsonClone(checkpointData))
    ELSE h

\* the response body and status of the handler, with the data bag it decided on
transitionResponse(session, action, target, data) ==
    LET currentCheckpoint == session.currentCheckpoint
        checkpointData ==
            IF data.present THEN Spread(session.checkpointData, data.bag)
            ELSE session.checkpointData
        r == transitionSwitch(currentCheckpoint, checkpointData, action, target)
    IN
    IF r.status # 200
    THEN [status |-> r.status, error |-> r.error, transitioned |-> FALSE,
          previousCheckpoint |-> "", currentCheckpoint |-> "",
          hasMissing |-> (action = "next"),
          missingFields |-> IF action = "next"
                            THEN getMissingFields(currentCheckpoint, checkpointData)
                            ELSE <<>>,
          canAdvance |-> FALSE, checkpointData |-> checkpointData]
    ELSE [status |-> 200, error |-> "", transitioned |-> r.transitioned,
          previousCheckpoint |-> currentCheckpoint, currentCheckpoint |-> r.newCheckpoint,
          hasMissing |-> TRUE,
          missingFields |-> getMissingFields(r.newCheckpoint, checkpointData),
          canAdvance |-> canAdvance(r.newCheckpoint, checkpointData),
          checkpointData |-> checkpointData]

TransitionPOST(sid, action, target, data) ==
    LET session == sessions[sid]
        currentCheckpoint == session.currentCheckpoint
        response == transitionResponse(session, action, target, data)
        newCheckpoint == response.currentCheckpoint
        request == [NoRequest EXCEPT !.op = "transition", !.sid = sid, !.action = action]
    IN
    IF ~session.exists
    THEN /\ last' = [request EXCEPT !.status = 404]
         /\ UNCHANGED storeVars
    ELSE IF response.status # 200
    THEN /\ last' = [request EXCEPT !.status = response.status]
         /\ UNCHANGED storeVars
    ELSE /\ response.transitioned /\ newCheckpoint # currentCheckpoint
            => Len(history[sid]) < MaxHistory
         /\ last' = [request EXCEPT !.status = 200]
         /\ IF response.transitioned
            THEN /\ history' = updateWhere(history, sid,
                        transitionHistory(history[sid], currentCheckpoint, newCheckpoint,
                                          response.checkpointData))
                 /\ sessions' = updateWhere(sessions, sid,
                        [session EXCEPT !.currentCheckpoint = newCheckpoint,
                                        !.checkpointData = JsonClone(response.checkpointData),
                                        !.completedAt = (newCheckpoint = "COMPLETED") \/ @])
                 /\ clientStatus' = IF newCheckpoint = "COMPLETED" THEN "ACTIVE" ELSE clientStatus
                 /\ UNCHANGED messageCount
            ELSE UNCHANGED storeVars

----------------------------------------------------------------------------
(* Conversation engine *)

\* a user text is known by whether it contains 'hello', 'hi' or 'hey'
Texts == {"hi there", "what now"}
hasGreeting(text) == text = "hi there"

\* an AIResponseData record: message is the opening words of the text,
\* uiAction the type of the action ("" is null), confirmationNeeded a list
AIResponseData(message, extractedData, readyToAdvance, uiAction) ==
    [message |-> message, extractedData |-> extractedData, confirmationNeeded |-> <<>>,
     readyToAdvance |-> readyToAdvance, uiAction |-> uiAction]

\* the uiAction types of a reply, "" for null
UiActions == {"", "show_business_search", "show_photo_upload", "show_review_summary"}

\* faulty variant of getFallbackResponse: the switch has no default case
getFallbackResponseWithoutDefault(checkpoint, userMessage) ==
    CASE checkpoint = "WELCOME" ->
            AIResponseData("Thanks for that!", Data(Greeted), TRUE, "")
      [] checkpoint = "GBP" ->
            AIResponseData("Let's set up your Google Business Profile.", NoData, FALSE,
                           "show_business_search")
      [] checkpoint = "PHOTOS" ->
            AIResponseData("Now let's get some photos", NoData, FALSE, "show_photo_upload")
      [] checkpoint = "REVIEW" ->
            AIResponseData("Here's a summary", NoData, FALSE, "show_review_summary")
      [] checkpoint \in {"BUSINESS_INFO", "DOMAIN_ACCESS"} ->
            AIResponseData("Tell me more", NoData, FALSE, "")
      [] OTHER -> AIResponseData("", NoData, FALSE, "")

\* getFallbackResponse: the reply when the provider is missing or throws
getFallbackResponse(checkpoint, userMessage) ==
    CASE checkpoint = "WELCOME" ->
            IF hasGreeting(userMessage)
            THEN AIResponseData("Great to meet you!", Data(Greeted), TRUE, "")
            ELSE AIResponseData("Thanks for that!", Data(Greeted), TRUE, "")
      [] checkpoint = "BUSINESS_INFO" ->
            AIResponseData("That's great information!", NoData, FALSE, "")
      [] checkpoint = "DOMAIN_ACCESS" ->
            AIResponseData("Do you have a website", NoData, FALSE, "")
      [] checkpoint = "GBP" ->
            AIResponseData("Let's set up your Google Business Profile.", NoData, FALSE,
                           "show_business_search")
      [] checkpoint = "PHOTOS" ->
            AIResponseData("Now let's get some photos", NoData, FALSE, "show_photo_upload")
      [] checkpoint = "REVIEW" ->
            AIResponseData("Here's a summary", NoData, FALSE, "show_review_summary")
      [] OTHER ->
            AIResponseData("Thanks for sharing that!", NoData, FALSE, "")

\* faulty variant of shouldAdvance: the reply's readyToAdvance is not consulted
shouldAdvanceOnDataAlone(currentCheckpoint, mergedData, readyToAdvance) ==
    isCheckpointComplete(currentCheckpoint, mergedData)

\* the advance decision of processMessage
shouldAdvance(currentCheckpoint, mergedData, readyToAdvance) ==
    readyToAdvance /\ isCheckpointComplete(currentCheckpoint, mergedData)

\* processMessage: provider.ok = FALSE stands for no provider or a failed call,
\* otherwise provider carries the parsed reply
processMessage(userMessage, currentCheckpoint, checkpointData, provider) ==
    LET responseData ==
            IF provider.ok
            THEN AIResponseData(provider.message, provider.extractedData,
                                provider.readyToAdvance, provider.uiAction)
            ELSE getFallbackResponse(currentCheckpoint, userMessage)
        mergedData == mergeExtractedData(checkpointData, responseData.extractedData)
        advance == shouldAdvance(currentCheckpoint, mergedData, responseData.readyToAdvance)
    IN [message |-> responseData.message,
        extractedData |-> responseData.extractedData,
        confirmationNeeded |-> responseData.confirmationNeeded,
        uiAction |-> responseData.uiAction,
        shouldAdvanceCheckpoint |-> advance,
        nextCheckpoint |-> IF advance THEN getNextCheckpoint(currentCheckpoint) ELSE ""]

\* no provider configured, or the call threw
NoProvider ==
    [ok |-> FALSE, message |-> "", extractedData |-> NoData, readyToAdvance |-> FALSE,
     uiAction |-> ""]
Reply(extractedData, readyToAdvance) ==
    [ok |-> TRUE, message |-> "Got it.", extractedData |-> extractedData,
     readyToAdvance |-> readyToAdvance, uiAction |-> ""]

\* a provider reply text: text is the reply as sent, parses tells whether
\* JSON.parse accepts what the two regular expressions leave of it, and parsed
\* holds the fields of the parsed object ("" , NoData, FALSE: absent or falsy)
ResponseText(text, parses, message, extractedData, readyToAdvance) ==
    [text |-> text, parses |-> parses,
     parsed |-> [message |-> message, extractedData |-> extractedData,
                 readyToAdvance |-> readyToAdvance]]

\* faulty variant of parseAIResponse: a reply that does not parse counts as
\* ready to advance
parseAIResponseReadyOnFailure(responseText) ==
    IF responseText.parses
    THEN Reply(responseText.parsed.extractedData, responseText.parsed.readyToAdvance)
    ELSE Reply(NoData, TRUE)

\* parseAIResponse: the fields of the parsed object with their defaults, or
\* the raw text as message when JSON.parse throws
parseAIResponse(responseText) ==
    IF responseText.parses
    THEN [Reply(responseText.parsed.extractedData, responseText.parsed.readyToAdvance)
            EXCEPT !.message = IF responseText.parsed.message # ""
                               THEN responseText.parsed.message ELSE responseText.text]
    ELSE [Reply(NoData, FALSE) EXCEPT !.message = responseText.text]

\* reply texts of the provider: plain text, an object cut short, an empty
\* object, and objects with a message, extractedData and readyToAdvance
PlainText == ResponseText("Got it.", FALSE, "", NoData, FALSE)
ProviderTexts ==
    {PlainText,
     ResponseText("{ \"message\": \"Got", FALSE, "", NoData, FALSE),
     ResponseText("{}", TRUE, "", NoData, FALSE),
     ResponseText("{...}", TRUE, "Got it.", NoData, TRUE),
     ResponseText("{...}", TRUE, "Got it.", Data(PartialBusiness), TRUE),
     ResponseText("{...}", TRUE, "Got it.", Data(Confirmed), TRUE)}

\* the parsed provider replies: extractedData (NoData is null) and readyToAdvance
Replies == {parseAIResponse(responseText) : responseText \in ProviderTexts}

\* no chat-message request has read the session: phase is idle, read or
\* done, session the row the request read, messages the number of message
\* rows read with it, content and provider the request's inputs
NoInflight ==
    [r \in {"a", "b"} |->
        [phase |-> "idle", session |-> NoSession, messages |-> 0, content |-> "",
         provider |-> NoProvider]]

----------------------------------------------------------------------------
(* POST /api/onboarding/message *)

MessagePOST(sid, content, provider) ==
    LET session == sessions[sid]
        checkpointData == session.checkpointData
        response == processMessage(content, session.currentCheckpoint, checkpointData, provider)
        updatedCheckpointData == mergeExtractedData(checkpointData, response.extractedData)
        advanced == response.shouldAdvanceCheckpoint /\ response.nextCheckpoint # ""
        request == [NoRequest EXCEPT !.op = "message", !.sid = sid]
    IN
    IF ~session.exists
    THEN /\ last' = [request EXCEPT !.status = 404]
         /\ UNCHANGED storeVars
    ELSE /\ messageCount[sid] + 2 <= 2 * MaxChats
         /\ advanced => Len(history[sid]) < MaxHistory
         /\ messageCount' = [messageCount EXCEPT ![sid] = @ + 2]
         /\ history' = updateWhere(history, sid,
                IF advanced
                THEN historyExit(historyCreate(history[sid], response.nextCheckpoint),
                                 session.currentCheckpoint, JsonClone(updatedCheckpointData))
                ELSE history[sid])
         /\ sessions' = updateWhere(sessions, sid,
                [session EXCEPT
                    !.checkpointData = updatedCheckpointData,
                    !.currentCheckpoint = IF advanced THEN response.nextCheckpoint ELSE @,
                    !.completedAt = (advanced /\ response.nextCheckpoint = "COMPLETED") \/ @])
         /\ clientStatus' = IF advanced /\ response.nextCheckpoint = "COMPLETED"
                            THEN "ACTIVE" ELSE clientStatus
         /\ last' = [request EXCEPT !.status = 200]

----------------------------------------------------------------------------
(* /api/onboarding/session : POST creates or resumes, PATCH overwrites *)

\* client.sessions where completedAt is null
activeSessions == {i \in SessionIds : sessions[i].exists /\ ~sessions[i].completedAt}

SessionPOST ==
    IF clientStatus # "NONE" /\ activeSessions # {}
    THEN /\ last' = [NoRequest EXCEPT !.op = "create", !.status = 200, !.action = "resumed",
                                      !.sid = CHOOSE i \in activeSessions : TRUE]
         /\ UNCHANGED storeVars
    ELSE /\ \E i \in SessionIds : ~sessions[i].exists
         /\ LET id == CHOOSE i \in SessionIds : ~sessions[i].exists
            IN /\ sessions' = [sessions EXCEPT ![id] =
                        [exists |-> TRUE, currentCheckpoint |-> "WELCOME",
                         checkpointData |-> InitialData, completedAt |-> FALSE]]
               /\ history' = [history EXCEPT ![id] = historyCreate(<<>>, "WELCOME")]
               /\ last' = [NoRequest EXCEPT !.op = "create", !.status = 200, !.sid = id,
                                            !.action = "created"]
         /\ clientStatus' = IF clientStatus = "NONE" THEN "ONBOARDING" ELSE clientStatus
         /\ UNCHANGED messageCount

\* the checkpoints and data bags a PATCH body may carry ("" and NoData: key absent)
PatchRequests == {[currentCheckpoint |-> "REVIEW", checkpointData |-> NoData]}

SessionPATCH(sid, currentCheckpoint, checkpointData) ==
    LET request == [NoRequest EXCEPT !.op = "patch", !.sid = sid]
    IN
    IF ~sessions[sid].exists
    THEN /\ last' = [request EXCEPT !.status = 500]
         /\ UNCHANGED storeVars
    ELSE /\ sessions' = [sessions EXCEPT ![sid] =
                [@ EXCEPT !.currentCheckpoint = IF currentCheckpoint # "" THEN currentCheckpoint ELSE @,
                          !.checkpointData = IF checkpointData.present THEN checkpointData.bag ELSE @]]
         /\ last' = [request EXCEPT !.status = 200]
         /\ UNCHANGED <<history, messageCount, clientStatus>>

----------------------------------------------------------------------------
(* The xstate machine (onboardingMachine) and the actor that runs it *)

getStateFromCheckpoint(checkpoint) ==
    CASE checkpoint = "WELCOME" -> "welcome"
      [] checkpoint = "BUSINESS_INFO" -> "businessInfo"
      [] checkpoint = "DOMAIN_ACCESS" -> "domainAccess"
      [] checkpoint = "GBP" -> "gbp"
      [] checkpoint = "PHOTOS" -> "photos"
      [] checkpoint = "REVIEW" -> "review"
      [] checkpoint = "COMPLETED" -> "completed"
      [] OTHER -> "welcome"

getCheckpointFromState(stateValue) ==
    CASE stateValue = "welcome" -> "WELCOME"
      [] stateValue = "businessInfo" -> "BUSINESS_INFO"
      [] stateValue = "domainAccess" -> "DOMAIN_ACCESS"
      [] stateValue = "gbp" -> "GBP"
      [] stateValue = "photos" -> "PHOTOS"
      [] stateValue = "review" -> "REVIEW"
      [] stateValue = "completed" -> "COMPLETED"
      [] OTHER -> "WELCOME"

\* the event types of OnboardingEvent that the machine has a transition for
EventTypes ==
    {"NEXT", "BACK", "UPDATE_DATA", "EDIT_BUSINESS", "EDIT_DOMAIN", "EDIT_GBP",
     "EDIT_PHOTOS", "COMPLETE", "MESSAGE_SENT"}

\* the target of the transition the state `value` has for the event type, ""
\* when the state has none or its guard is false
machineTarget(value, checkpointData, type) ==
    CASE value = "completed" -> ""
      [] type = "NEXT" ->
            IF value # "review" /\ canAdvance(getCheckpointFromState(value), checkpointData)
            THEN getStateFromCheckpoint(orderAt(indexOf(getCheckpointFromState(value)) + 1))
            ELSE ""
      [] type = "BACK" ->
            IF value # "welcome"
            THEN getStateFromCheckpoint(orderAt(indexOf(getCheckpointFromState(value)) - 1))
            ELSE ""
      [] type = "COMPLETE" ->
            IF value = "review" /\ isReviewComplete(checkpointData) THEN "completed" ELSE ""
      [] type = "EDIT_BUSINESS" -> IF value = "review" THEN "businessInfo" ELSE ""
      [] type = "EDIT_DOMAIN" -> IF value = "review" THEN "domainAccess" ELSE ""
      [] type = "EDIT_GBP" -> IF value = "review" THEN "gbp" ELSE ""
      [] type = "EDIT_PHOTOS" -> IF value = "review" THEN "photos" ELSE ""
      [] OTHER -> ""

\* the context: the machine's default (options.input is not read by the machine)
createActor == [value |-> "welcome", checkpointData |-> EmptyBag, messageCount |-> 0]

\* actor.send(event): the snapshot after the event
actorSend(snapshot, type, data) ==
    LET target == machineTarget(snapshot.value, snapshot.checkpointData, type) IN
    CASE snapshot.value = "completed" -> snapshot
      [] type = "UPDATE_DATA" ->
            [snapshot EXCEPT !.checkpointData = Spread(@, data)]
      [] type = "MESSAGE_SENT" ->
            [snapshot EXCEPT !.messageCount = @ + 1]
      [] OTHER ->
            IF target # "" THEN [snapshot EXCEPT !.value = target] ELSE snapshot

\* the data an UPDATE_DATA event may carry
UpdatePatches == {Greeted, BusinessRecord, PartialBusiness, Statuses, Confirmed, ConfirmedYes}

----------------------------------------------------------------------------
(* The store under every request a client may send *)

Init ==
    /\ sessions = [i \in SessionIds |-> NoSession]
    /\ history = [i \in SessionIds |-> <<>>]
    /\ messageCount = [i \in SessionIds |-> 0]
    /\ clientStatus = "NONE"
    /\ last = NoRequest
    /\ actor = createActor
    /\ evCheckpoint = "WELCOME"
    /\ evData = EmptyBag
    /\ evResult = NoResult
    /\ mergeExisting = EmptyBag
    /\ mergeIncoming = NoData
    /\ mergeResult = NoMerge
    /\ writer = NoWriter
    /\ service = NoService
    /\ chat = NoChat
    /\ inflight = NoInflight

\* the requests of the onboarding client: session creation, the four
\* checkpoint actions and chat messages
NextClient ==
    \/ SessionPOST /\ UNCHANGED <<actor, evalVars>>
    \/ \E sid \in SessionIds, data \in NextPatches :
            TransitionPOST(sid, "next", "", data) /\ UNCHANGED <<actor, evalVars>>
    \/ \E sid \in SessionIds, data \in BackPatches :
            TransitionPOST(sid, "back", "", data) /\ UNCHANGED <<actor, evalVars>>
    \/ \E sid \in SessionIds, request \in GotoRequests :
            TransitionPOST(sid, "goto", request.target, request.data)
            /\ UNCHANGED <<actor, evalVars>>
    \/ \E sid \in SessionIds, data \in CompletePatches :
            TransitionPOST(sid, "complete", "", data) /\ UNCHANGED <<actor, evalVars>>
    \/ \E sid \in SessionIds, content \in Texts :
            MessagePOST(sid, content, NoProvider) /\ UNCHANGED <<actor, evalVars>>
    \/ \E sid \in SessionIds, provider \in Replies :
            MessagePOST(sid, "what now", provider) /\ UNCHANGED <<actor, evalVars>>

\* PATCH /api/onboarding/session with a body from PatchRequests
NextPatch ==
    \E sid \in SessionIds, request \in PatchRequests :
        SessionPATCH(sid, request.currentCheckpoint, request.checkpointData)
        /\ UNCHANGED <<actor, evalVars>>

Next == NextClient \/ NextPatch

SpecClient == Init /\ [][NextClient]_vars

Spec == Init /\ [][Next]_vars

----------------------------------------------------------------------------
(* Events sent to the actor *)

\* service.send(event); last.status records snapshot.can(event)
Send(type, data) ==
    /\ type = "MESSAGE_SENT" /\ actor.value # "completed" => actor.messageCount < MaxChats
    /\ actor' = actorSend(actor, type, data)
    /\ last' = [NoRequest EXCEPT
                    !.op = "event", !.action = type,
                    !.status = IF machineTarget(actor.value, actor.checkpointData, type) # ""
                               THEN 1 ELSE 0]
    /\ UNCHANGED <<storeVars, evalVars>>

NextMachine ==
    \/ \E type \in EventTypes \ {"UPDATE_DATA"} : Send(type, EmptyBag)
    \/ \E data \in UpdatePatches : Send("UPDATE_DATA", data)

SpecMachine == Init /\ [][NextMachine]_vars

----------------------------------------------------------------------------
(* The OnboardingStateService: the actor with its debounced save *)

\* the session the service was constructed for
serviceSession == CHOOSE sid \in SessionIds : TRUE

\* debouncedSave(state): a pending timer is cleared and a new one is set
debouncedSave(state) == [service EXCEPT !.timer = TRUE, !.state = state]

\* saveToDatabase(state): the checkpoint is read from the actor, the data
\* from the snapshot handed in; an update of a missing row throws and the
\* error is logged
saveToDatabase(state) ==
    IF sessions[serviceSession].exists
    THEN [sessions EXCEPT ![serviceSession] =
            [@ EXCEPT !.currentCheckpoint = getCheckpointFromState(actor.value),
                      !.checkpointData = JsonClone(state.checkpointData)]]
    ELSE sessions

\* createOnboardingService(sessionId): the actor is created and started; the
\* subscriber may or may not be called with the initial snapshot
Initialize ==
    /\ ~service.actor
    /\ sessions[serviceSession].exists
    /\ actor' = createActor
    /\ \E notified \in BOOLEAN :
            service' = [actor |-> TRUE, timer |-> notified, sent |-> FALSE,
                        state |-> createActor]
    /\ last' = [NoRequest EXCEPT !.op = "service", !.action = "initialize",
                                 !.sid = serviceSession, !.status = 1]
    /\ UNCHANGED <<storeVars, evCheckpoint, evData, evResult, mergeVars, writer, chat, inflight>>

\* this.send(event) of a running service: the actor takes the event and the
\* subscriber schedules the save; a finished actor drops the event
serviceSend(type, data, accepted) ==
    /\ actor' = actorSend(actor, type, data)
    /\ service' = IF actor.value = "completed" THEN service
                  ELSE [debouncedSave(actorSend(actor, type, data)) EXCEPT !.sent = TRUE]
    /\ last' = [NoRequest EXCEPT !.op = "service", !.action = type,
                                 !.sid = serviceSession, !.status = IF accepted THEN 1 ELSE 0]
    /\ UNCHANGED <<storeVars, evCheckpoint, evData, evResult, mergeVars, writer, chat, inflight>>

\* tryAdvance(), goBack(), complete(): the event is sent when snapshot.can
\* allows it, and the call answers whether it was
serviceTransition(type) ==
    /\ service.actor
    /\ IF machineTarget(actor.value, actor.checkpointData, type) # ""
       THEN serviceSend(type, EmptyBag, TRUE)
       ELSE /\ last' = [NoRequest EXCEPT !.op = "service", !.action = type,
                                         !.sid = serviceSession, !.status = 0]
            /\ UNCHANGED <<storeVars, actor, evalVars>>

\* updateData(data)
updateData(data) ==
    /\ service.actor
    /\ serviceSend("UPDATE_DATA", data, actor.value # "completed")

\* the callback of saveDebounceTimer runs
TimerFires ==
    /\ service.timer
    /\ sessions' = saveToDatabase(service.state)
    /\ service' = [service EXCEPT !.timer = FALSE]
    /\ last' = [NoRequest EXCEPT !.op = "service", !.action = "save",
                                 !.sid = serviceSession, !.status = 1]
    /\ UNCHANGED <<history, messageCount, clientStatus, actor, evCheckpoint, evData,
                   evResult, mergeVars, writer, chat, inflight>>

\* forceSave()
forceSave ==
    /\ service.actor
    /\ sessions' = saveToDatabase(actor)
    /\ service' = [service EXCEPT !.timer = FALSE]
    /\ last' = [NoRequest EXCEPT !.op = "service", !.action = "forceSave",
                                 !.sid = serviceSession, !.status = 1]
    /\ UNCHANGED <<history, messageCount, clientStatus, actor, evCheckpoint, evData,
                   evResult, mergeVars, writer, chat, inflight>>

\* stop(): the timer is cleared and the actor is dropped
stop ==
    /\ service.actor
    /\ service' = [service EXCEPT !.timer = FALSE, !.actor = FALSE]
    /\ last' = [NoRequest EXCEPT !.op = "service", !.action = "stop",
                                 !.sid = serviceSession, !.status = 1]
    /\ UNCHANGED <<storeVars, actor, evCheckpoint, evData, evResult, mergeVars, writer, chat, inflight>>

NextService ==
    \/ SessionPOST /\ ~sessions[serviceSession].exists /\ UNCHANGED <<actor, evalVars>>
    \/ Initialize
    \/ \E type \in {"NEXT", "BACK", "COMPLETE"} : serviceTransition(type)
    \/ \E data \in UpdatePatches : updateData(data)
    \/ TimerFires
    \/ forceSave
    \/ stop

SpecService == Init /\ [][NextService]_vars

----------------------------------------------------------------------------
(* The guard functions over every checkpoint and a set of data bags *)

EvalBags ==
    {EmptyBag, InitialData, Greeted, NotGreeted,
     [EmptyBag EXCEPT !["greeted"] = Null, !["confirmed"] = Null],
     BusinessRecord, PartialBusiness,
     [BusinessRecord EXCEPT !["services"] = Arr(<<>>)],
     [BusinessRecord EXCEPT !["email"] = Str("")],
     [BusinessRecord EXCEPT !["address"] = Obj(NoFields)],
     Statuses,
     [EmptyBag EXCEPT !["domainStatus"] = Str("other"), !["gbpStatus"] = Str("other"),
                      !["photoStatus"] = Str("other")],
     Confirmed, ConfirmedYes,
     [EmptyBag EXCEPT !["confirmed"] = Bool(FALSE)],
     Spread(Spread(Spread(BusinessRecord, Greeted), Statuses), Confirmed)}

\* the checkpoint the route moves to for the action on the checkpoint and
\* bag, "" when the request is rejected or does not move
routeDestination(checkpoint, data, action) ==
    LET r == transitionSwitch(checkpoint, data, action, "") IN
    IF r.status = 200 /\ r.transitioned THEN r.newCheckpoint ELSE ""

\* the checkpoint the machine moves to for the event in the state of the
\* checkpoint with the bag as context, "" when snapshot.can(event) is false
machineDestination(checkpoint, data, type) ==
    LET target == machineTarget(getStateFromCheckpoint(checkpoint), data, type) IN
    IF target = "" THEN "" ELSE getCheckpointFromState(target)

\* one call of each guard function on the chosen checkpoint and bag
Evaluate ==
    /\ ~evResult.done
    /\ evResult' = [done |-> TRUE,
                    canAdvance |-> canAdvance(evCheckpoint, evData),
                    missingFields |-> getMissingFields(evCheckpoint, evData),
                    isCheckpointComplete |-> isCheckpointComplete(evCheckpoint, evData),
                    promptMissingFields |-> promptGetMissingFields(evCheckpoint, evData),
                    completionPercentage |-> getCompletionPercentage(evCheckpoint),
                    route |-> [action \in {"next", "back", "complete"} |->
                                  routeDestination(evCheckpoint, evData, action)],
                    machine |-> [type \in {"NEXT", "BACK", "COMPLETE"} |->
                                    machineDestination(evCheckpoint, evData, type)]]
    /\ UNCHANGED <<storeVars, last, actor, evCheckpoint, evData, mergeVars, writer, service, chat, inflight>>

InitEval ==
    /\ sessions = [i \in SessionIds |-> NoSession]
    /\ history = [i \in SessionIds |-> <<>>]
    /\ messageCount = [i \in SessionIds |-> 0]
    /\ clientStatus = "NONE"
    /\ last = NoRequest
    /\ actor = createActor
    /\ evCheckpoint \in Checkpoints
    /\ evData \in EvalBags
    /\ evResult = NoResult
    /\ mergeExisting = EmptyBag
    /\ mergeIncoming = NoData
    /\ mergeResult = NoMerge
    /\ writer = NoWriter
    /\ service = NoService
    /\ chat = NoChat
    /\ inflight = NoInflight

SpecEval == InitEval /\ [][Evaluate]_vars

----------------------------------------------------------------------------
(* mergeExtractedData over a set of existing bags and incoming objects *)

CityOnly == Obj([NoFields EXCEPT !["city"] = ScStr("X")])
NullStreet == Obj([NoFields EXCEPT !["street"] = ScNull, !["city"] = ScStr("X")])

\* existing bags: address absent, null, a string, an array or one of two
\* objects; services absent or an array with or without a repeated element
MergeBags ==
    {[Greeted EXCEPT !["address"] = a, !["services"] = v] :
        a \in {Undef, Null, Str("1 Main"), Arr(<<"1 Main">>), StreetOnly, FullAddress},
        v \in {Undef, Arr(<<"cuts">>), Arr(<<"cuts", "cuts">>), Arr(<<"color", "cuts">>)}}

\* newData: null, or an object holding address and services
MergeInputs ==
    {NoData} \cup
    {Data([EmptyBag EXCEPT !["address"] = a, !["services"] = v]) :
        a \in {Undef, Null, Str("2 Side"), Arr(<<"2 Side">>), CityOnly, NullStreet},
        v \in {Undef, Null, Arr(<<"cuts", "color">>), Arr(<<"wash", "wash">>)}}

\* the data bag the checkpoint handler decides on when the request carries
\* data: if (data) { checkpointData = { ...checkpointData, ...data } }
applyPatch(checkpointData, data) ==
    IF data.present THEN Spread(checkpointData, data.bag) ELSE checkpointData

\* mergeExtractedData(existing, newData), the same newData merged into the
\* result once more, existing merged with itself, and newData applied to
\* existing as the data of a checkpoint request
Merge ==
    /\ ~mergeResult.done
    /\ LET once == mergeExtractedData(mergeExisting, mergeIncoming)
       IN mergeResult' =
            [done |-> TRUE,
             once |-> once,
             twice |-> mergeExtractedData(once, mergeIncoming),
             self |-> mergeExtractedData(mergeExisting, Data(mergeExisting)),
             patched |-> applyPatch(mergeExisting, mergeIncoming)]
    /\ UNCHANGED <<storeVars, last, actor, evCheckpoint, evData, evResult, mergeExisting,
                   mergeIncoming, writer, service, chat, inflight>>

InitMerge ==
    /\ sessions = [i \in SessionIds |-> NoSession]
    /\ history = [i \in SessionIds |-> <<>>]
    /\ messageCount = [i \in SessionIds |-> 0]
    /\ clientStatus = "NONE"
    /\ last = NoRequest
    /\ actor = createActor
    /\ evCheckpoint = "WELCOME"
    /\ evData = EmptyBag
    /\ evResult = NoResult
    /\ mergeExisting \in MergeBags
    /\ mergeIncoming \in MergeInputs
    /\ mergeResult = NoMerge
    /\ writer = NoWriter
    /\ service = NoService
    /\ chat = NoChat
    /\ inflight = NoInflight

SpecMerge == InitMerge /\ [][Merge]_vars

----------------------------------------------------------------------------
(* The handlers' store writes one at a time, and a request cut off between *)
(* two of them                                                              *)

\* the awaited prisma calls of an accepted transition, in program order
transitionWrites(currentCheckpoint, response) ==
    LET newCheckpoint == response.currentCheckpoint
        data == JsonClone(response.checkpointData)
    IN
    IF ~response.transitioned THEN <<>>
    ELSE (IF newCheckpoint # currentCheckpoint
          THEN <<[w |-> "historyCreate", checkpoint |-> newCheckpoint, data |-> EmptyBag],
                 [w |-> "historyExit", checkpoint |-> currentCheckpoint, data |-> data]>>
          ELSE <<>>)
         \o (IF newCheckpoint = "COMPLETED"
             THEN <<[w |-> "clientUpdate", checkpoint |-> newCheckpoint, data |-> EmptyBag]>>
             ELSE <<>>)
         \o <<[w |-> "sessionUpdate", checkpoint |-> newCheckpoint, data |-> data]>>

\* the awaited prisma calls of the message handler, in program order
messageWrites(currentCheckpoint, response, updatedCheckpointData) ==
    LET advanced == response.shouldAdvanceCheckpoint /\ response.nextCheckpoint # ""
        newCheckpoint == IF advanced THEN response.nextCheckpoint ELSE currentCheckpoint
    IN
    <<[w |-> "messageCreate", checkpoint |-> currentCheckpoint, data |-> EmptyBag],
      [w |-> "messageCreate", checkpoint |-> currentCheckpoint, data |-> EmptyBag]>>
    \o (IF advanced
        THEN <<[w |-> "historyCreate", checkpoint |-> newCheckpoint, data |-> EmptyBag],
               [w |-> "historyExit", checkpoint |-> currentCheckpoint,
                data |-> JsonClone(updatedCheckpointData)]>>
        ELSE <<>>)
    \o (IF advanced /\ newCheckpoint = "COMPLETED"
        THEN <<[w |-> "clientUpdate", checkpoint |-> newCheckpoint, data |-> EmptyBag]>>
        ELSE <<>>)
    \o <<[w |-> "sessionUpdate", checkpoint |-> newCheckpoint, data |-> updatedCheckpointData]>>

\* a checkpoint request arrives: a rejection is answered at once, an accepted
\* request starts its writes
BeginTransition(sid, action, target, data) ==
    LET session == sessions[sid]
        response == transitionResponse(session, action, target, data)
        writes == transitionWrites(session.currentCheckpoint, response)
        request == [NoRequest EXCEPT !.op = "transition", !.sid = sid, !.action = action]
    IN
    /\ writer.writes = <<>>
    /\ session.exists
    /\ response.status = 200 /\ response.currentCheckpoint # session.currentCheckpoint
        => Len(history[sid]) < MaxHistory
    /\ IF response.status # 200 \/ writes = <<>>
       THEN /\ last' = [request EXCEPT !.status = response.status]
            /\ UNCHANGED writer
       ELSE /\ last' = request
            /\ writer' = [writer EXCEPT !.sid = sid, !.writes = writes, !.done = 0,
                                        !.request = [request EXCEPT !.status = 200]]
    /\ UNCHANGED <<storeVars, actor, evCheckpoint, evData, evResult, mergeVars, service, chat, inflight>>

\* a chat message arrives and starts its writes
BeginMessage(sid, content, provider) ==
    LET session == sessions[sid]
        response == processMessage(content, session.currentCheckpoint,
                                   session.checkpointData, provider)
        updatedCheckpointData == mergeExtractedData(session.checkpointData,
                                                    response.extractedData)
        request == [NoRequest EXCEPT !.op = "message", !.sid = sid]
    IN
    /\ writer.writes = <<>>
    /\ session.exists
    /\ messageCount[sid] + 2 <= 2 * MaxChats
    /\ response.shouldAdvanceCheckpoint /\ response.nextCheckpoint # ""
        => Len(history[sid]) < MaxHistory
    /\ last' = request
    /\ writer' = [writer EXCEPT
                    !.sid = sid, !.done = 0,
                    !.writes = messageWrites(session.currentCheckpoint, response,
                                             updatedCheckpointData),
                    !.request = [request EXCEPT !.status = 200]]
    /\ UNCHANGED <<storeVars, actor, evCheckpoint, evData, evResult, mergeVars, service, chat, inflight>>

\* the next awaited write of the request reaches the store; after the last
\* one the response is sent
Write ==
    LET sid == writer.sid
        write == Head(writer.writes)
    IN
    /\ writer.writes # <<>>
    /\ history' = [history EXCEPT ![sid] =
            CASE write.w = "historyCreate" -> historyCreate(@, write.checkpoint)
              [] write.w = "historyExit" -> historyExit(@, write.checkpoint, write.data)
              [] OTHER -> @]
    /\ messageCount' = [messageCount EXCEPT ![sid] =
            IF write.w = "messageCreate" THEN @ + 1 ELSE @]
    /\ clientStatus' = IF write.w = "clientUpdate" THEN "ACTIVE" ELSE clientStatus
    /\ sessions' = [sessions EXCEPT ![sid] =
            IF write.w = "sessionUpdate"
            THEN [@ EXCEPT !.currentCheckpoint = write.checkpoint,
                           !.checkpointData = write.data,
                           !.completedAt = (write.checkpoint = "COMPLETED"
                                            /\ write.checkpoint # @.currentCheckpoint) \/ @]
            ELSE @]
    /\ writer' = [writer EXCEPT !.writes = Tail(@), !.done = @ + 1]
    /\ last' = IF Tail(writer.writes) = <<>> THEN writer.request ELSE last
    /\ UNCHANGED <<actor, evCheckpoint, evData, evResult, mergeVars, service, chat, inflight>>

\* the process stops between two writes of the request: the writes made
\* stay, the others are never made
Crash ==
    /\ writer.writes # <<>>
    /\ writer.done >= 1
    /\ writer' = [writer EXCEPT !.writes = <<>>, !.crashed = TRUE]
    /\ last' = [writer.request EXCEPT !.op = "crash", !.status = 0]
    /\ UNCHANGED <<storeVars, actor, evCheckpoint, evData, evResult, mergeVars, service, chat, inflight>>

NextWrites ==
    \/ writer.writes = <<>> /\ SessionPOST
       /\ UNCHANGED <<actor, evCheckpoint, evData, evResult, mergeVars, writer, service, chat, inflight>>
    \/ \E sid \in SessionIds, data \in NextPatches : BeginTransition(sid, "next", "", data)
    \/ \E sid \in SessionIds, data \in BackPatches : BeginTransition(sid, "back", "", data)
    \/ \E sid \in SessionIds, request \in GotoRequests :
            BeginTransition(sid, "goto", request.target, request.data)
    \/ \E sid \in SessionIds, data \in CompletePatches :
            BeginTransition(sid, "complete", "", data)
    \/ \E sid \in SessionIds, content \in Texts : BeginMessage(sid, content, NoProvider)
    \/ \E sid \in SessionIds, provider \in Replies : BeginMessage(sid, "what now", provider)
    \/ Write
    \/ Crash

SpecWrites == Init /\ [][NextWrites]_vars

----------------------------------------------------------------------------
(* Properties of the checkpoint handlers *)

\* the data bag a checkpoint request decides on: the stored bag with the
\* request's data spread over it
requestData(sid, data) ==
    IF data.present THEN Spread(sessions[sid].checkpointData, data.bag)
    ELSE sessions[sid].checkpointData

\* C1: every step that moves a session to a checkpoint of strictly greater
\* registry index commits a data bag for which every checkpoint of smaller
\* index than the destination is complete.
C1_EarlierCheckpointsComplete ==
    [][\A sid \in SessionIds :
        LET from == indexOf(sessions[sid].currentCheckpoint)
            to == indexOf(sessions'[sid].currentCheckpoint)
        IN (sessions[sid].exists /\ to > from)
           => \A i \in 0..(to - 1) :
                canAdvance(orderAt(i), sessions'[sid].checkpointData)]_vars

\* C2: once a session's checkpoint is COMPLETED, no checkpoint request (next,
\* back, goto, complete) and no chat message changes it.
C2_CompletedIsTerminal ==
    [][\A sid \in SessionIds :
        (/\ sessions[sid].exists
         /\ sessions[sid].currentCheckpoint = "COMPLETED"
         /\ last'.op \in {"transition", "message"})
        => sessions'[sid].currentCheckpoint = "COMPLETED"]_vars

\* C3: a next request at a checkpoint that has a successor is rejected, the
\* checkpoint unchanged, whenever getMissingFields of the checkpoint and the
\* request's data bag is non-empty, and otherwise succeeds and moves the session
\* to the following checkpoint of the order.
C3_NextFollowsMissingFields ==
    [][\A sid \in SessionIds, data \in NextPatches :
        (/\ last'.action = "next"
         /\ sessions[sid].exists
         /\ sessions[sid].currentCheckpoint # "COMPLETED"
         /\ TransitionPOST(sid, "next", "", data))
        => LET currentCheckpoint == sessions[sid].currentCheckpoint IN
           IF getMissingFields(currentCheckpoint, requestData(sid, data)) # <<>>
           THEN /\ last'.status = 400
                /\ sessions'[sid].currentCheckpoint = currentCheckpoint
           ELSE /\ last'.status = 200
                /\ sessions'[sid].currentCheckpoint =
                        orderAt(indexOf(currentCheckpoint) + 1)]_vars

\* C4: a goto request naming a checkpoint succeeds and makes it the current
\* checkpoint when its index is at most the current index or the current
\* checkpoint is REVIEW; otherwise it is rejected and the checkpoint is unchanged.
C4_GotoRule ==
    [][\A sid \in SessionIds, request \in GotoRequests :
        (/\ last'.action = "goto"
         /\ sessions[sid].exists
         /\ request.target \in Checkpoints
         /\ TransitionPOST(sid, "goto", request.target, request.data))
        => LET currentCheckpoint == sessions[sid].currentCheckpoint IN
           IF \/ indexOf(request.target) <= indexOf(currentCheckpoint)
              \/ currentCheckpoint = "REVIEW"
           THEN /\ last'.status = 200
                /\ sessions'[sid].currentCheckpoint = request.target
           ELSE /\ last'.status = 400
                /\ sessions'[sid].currentCheckpoint = currentCheckpoint]_vars

\* a goto from REVIEW forward to COMPLETED was accepted: the session is completed
\* with no confirmation in its data
C4_Witness ==
    \E sid \in SessionIds :
        /\ last.action = "goto" /\ last.status = 200
        /\ sessions[sid].currentCheckpoint = "COMPLETED"
        /\ ~Truthy(sessions[sid].checkpointData["confirmed"])

\* C5: a complete request moves the session to COMPLETED only when the current
\* checkpoint is REVIEW and confirmed is the boolean true in the request's data
\* bag; in every other case it is rejected and the session and its history are
\* unchanged.
C5_CompleteNeedsExactlyTrue ==
    [][\A sid \in SessionIds, data \in CompletePatches :
        (/\ last'.action = "complete"
         /\ sessions[sid].exists
         /\ TransitionPOST(sid, "complete", "", data)
         /\ ~(/\ sessions[sid].currentCheckpoint = "REVIEW"
              /\ IsTrue(requestData(sid, data)["confirmed"])))
        => /\ last'.status = 400
           /\ UNCHANGED <<sessions, history>>]_vars

\* C6: for every checkpoint and data bag, canAdvance is true if and only if
\* getMissingFields is empty.
C6_CompleteIffNothingMissing ==
    evResult.done => (evResult.canAdvance <=> evResult.missingFields = <<>>)

\* the reply a chat message is answered with: the provider's, or the fallback
chatReply(sid, content, provider) ==
    IF provider.ok THEN provider
    ELSE getFallbackResponse(sessions[sid].currentCheckpoint, content)

C8_BusinessInfoNeedsFullAddress ==
    [][\A sid \in SessionIds :
        (/\ sessions[sid].exists
         /\ sessions[sid].currentCheckpoint = "BUSINESS_INFO"
         /\ sessions'[sid].currentCheckpoint = "DOMAIN_ACCESS"
         /\ (last'.action = "next" \/ last'.op = "message"))
        => LET data == sessions'[sid].checkpointData IN
           /\ \A k \in {"street", "city", "state", "zip"} : Truthy(Field(data["address"], k))
           /\ data["services"].t = "array"
           /\ Len(data["services"].a) >= 1]_vars

\* C9: every session has exactly one history entry with no exit time, and that
\* entry's checkpoint is the session's current checkpoint.
C9_OneOpenEntry ==
    \A sid \in SessionIds :
        sessions[sid].exists =>
            LET open == {i \in DOMAIN history[sid] : ~history[sid][i].exitedAt} IN
            /\ Cardinality(open) = 1
            /\ \A i \in open : history[sid][i].checkpoint = sessions[sid].currentCheckpoint

\* the outcome of BACK in the machine placed at the session's checkpoint with
\* the session's data, as a checkpoint ("" when the machine does not move)
machineBack(sid) ==
    LET target == machineTarget(getStateFromCheckpoint(sessions[sid].currentCheckpoint),
                                sessions[sid].checkpointData, "BACK")
    IN IF target = "" THEN "" ELSE getCheckpointFromState(target)

\* C10 as stated: back from any checkpoint other than WELCOME moves to the
\* preceding checkpoint, in the checkpoint route and in the machine alike; back
\* at WELCOME moves neither.
C10_BackFromAnyButWelcome ==
    [][\A sid \in SessionIds :
        (/\ last'.action = "back"
         /\ sessions[sid].exists
         /\ TransitionPOST(sid, "back", "", NoData))
        => LET currentCheckpoint == sessions[sid].currentCheckpoint IN
           IF currentCheckpoint # "WELCOME"
           THEN /\ sessions'[sid].currentCheckpoint = orderAt(indexOf(currentCheckpoint) - 1)
                /\ machineBack(sid) = orderAt(indexOf(currentCheckpoint) - 1)
           ELSE /\ sessions'[sid].currentCheckpoint = currentCheckpoint
                /\ machineBack(sid) = ""]_vars

\* C10, amended: back from any checkpoint other than WELCOME and COMPLETED
\* moves to the preceding checkpoint whatever the data bag holds, in the
\* checkpoint route and in the machine alike; back at WELCOME moves neither.
C10_BackBeforeCompleted ==
    [][\A sid \in SessionIds :
        (/\ last'.action = "back"
         /\ sessions[sid].exists
         /\ sessions[sid].currentCheckpoint # "COMPLETED"
         /\ TransitionPOST(sid, "back", "", NoData))
        => LET currentCheckpoint == sessions[sid].currentCheckpoint IN
           IF currentCheckpoint # "WELCOME"
           THEN /\ sessions'[sid].currentCheckpoint = orderAt(indexOf(currentCheckpoint) - 1)
                /\ machineBack(sid) = orderAt(indexOf(currentCheckpoint) - 1)
           ELSE /\ sessions'[sid].currentCheckpoint = currentCheckpoint
                /\ machineBack(sid) = ""]_vars

\* back has moved a session from BUSINESS_INFO, which its data does not
\* complete, to WELCOME
C10_Witness ==
    \E sid \in SessionIds :
        /\ last.action = "back" /\ last.status = 200
        /\ sessions[sid].currentCheckpoint = "WELCOME"
        /\ Len(history[sid]) = 3
        /\ history[sid][2].checkpoint = "BUSINESS_INFO" /\ history[sid][2].exitedAt
        /\ history[sid][3].checkpoint = "WELCOME" /\ ~history[sid][3].exitedAt
        /\ ~canAdvance("BUSINESS_INFO", sessions[sid].checkpointData)

\* C11: once a session is at COMPLETED, no checkpoint request and no chat
\* message changes its persisted data bag.
C11_DataFrozenAfterCompleted ==
    [][\A sid \in SessionIds :
        (/\ last'.op \in {"transition", "message"}
         /\ sessions[sid].exists
         /\ sessions[sid].currentCheckpoint = "COMPLETED")
        => sessions'[sid].checkpointData = sessions[sid].checkpointData]_vars

----------------------------------------------------------------------------
(* Properties of mergeExtractedData *)

\* no element of xs occurs twice
noRepeats(xs) == \A i, j \in 1..Len(xs) : xs[i] = xs[j] => i = j

\* C12, as stated: merge(D, null) = D, and merging the same E a second time
\* changes nothing, for every D and E.
C12_MergeTwiceIsMergeOnce ==
    mergeResult.done
    => /\ ~mergeIncoming.present => mergeResult.once = mergeExisting
       /\ mergeResult.twice = mergeResult.once

\* C12, amended: merge(D, null) = D, and merging the same E a second time
\* changes nothing whenever every sequence of E that holds a repeated element
\* meets an existing sequence in D.
C12_MergeTwiceWithoutRepeats ==
    mergeResult.done
    => /\ ~mergeIncoming.present => mergeResult.once = mergeExisting
       /\ (\A k \in Keys :
                mergeIncoming.bag[k].t = "array" /\ ~noRepeats(mergeIncoming.bag[k].a)
                => mergeExisting[k].t = "array")
          => mergeResult.twice = mergeResult.once

\* an object with a sequence and a nested mapping has been merged into a bag
\* that holds a sequence and a mapping at the same keys, and changed both
C12_Witness ==
    /\ mergeResult.done
    /\ mergeExisting["services"] = Arr(<<"cuts">>)
    /\ mergeIncoming.bag["services"] = Arr(<<"cuts", "color">>)
    /\ mergeExisting["address"] = StreetOnly
    /\ mergeIncoming.bag["address"] = CityOnly
    /\ mergeResult.once["services"] = Arr(<<"cuts", "color">>)
    /\ mergeResult.once["address"].o["city"] = ScStr("X")
    /\ mergeResult.once["address"].o["street"] = ScStr("1 Main")
    /\ mergeResult.twice = mergeResult.once

\* C13, as stated: merge(x, x) = x for every data bag x.
C13_MergeSelf ==
    mergeResult.done => mergeResult.self = mergeExisting

\* C13, amended: merge(x, x) = x for every data bag x whose sequences hold no
\* repeated element.
C13_MergeSelfWithoutRepeats ==
    (/\ mergeResult.done
     /\ \A k \in Keys : mergeExisting[k].t = "array" => noRepeats(mergeExisting[k].a))
    => mergeResult.self = mergeExisting

\* a bag holding a sequence of two distinct elements and a nested mapping
\* has been merged with itself
C13_Witness ==
    /\ mergeResult.done
    /\ mergeExisting["services"] = Arr(<<"color", "cuts">>)
    /\ mergeExisting["address"] = FullAddress
    /\ mergeResult.self = mergeExisting

\* C14: every key of D is a key of merge(D, E), and where E holds null or
\* nothing at a key the merged value is the one of D, also for the fields
\* of nested mappings that are merged recursively.
C14_MergeKeepsExisting ==
    (mergeResult.done /\ mergeIncoming.present)
    => \A k \in Keys :
        LET old == mergeExisting[k]
            value == mergeIncoming.bag[k]
            merged == mergeResult.once[k]
        IN /\ old.t # "undefined" => merged.t # "undefined"
           /\ value.t \in {"undefined", "null"} => merged = old
           /\ (old.t = "object" /\ value.t = "object")
              => /\ merged.t = "object"
                 /\ \A j \in SubKeys :
                        /\ old.o[j].t # "undefined" => merged.o[j].t # "undefined"
                        /\ value.o[j].t \in {"undefined", "null"} => merged.o[j] = old.o[j]

\* a null services value and an address with a null street have been merged
\* into a bag that holds services and a full address
C14_Witness ==
    /\ mergeResult.done
    /\ mergeExisting["services"] = Arr(<<"cuts">>)
    /\ mergeExisting["address"] = FullAddress
    /\ mergeIncoming.present
    /\ mergeIncoming.bag["services"] = Null
    /\ mergeIncoming.bag["address"] = NullStreet
    /\ mergeResult.once["services"] = Arr(<<"cuts">>)
    /\ mergeResult.once["address"] = FullAddress
    /\ mergeResult.once["greeted"] = Bool(TRUE)

\* the elements of a sequence
elements(xs) == {xs[i] : i \in 1..Len(xs)}

\* the index at which x occurs first in xs
firstSeen(x, xs) == CHOOSE i \in 1..Len(xs) : xs[i] = x /\ \A h \in 1..(i - 1) : xs[h] # x

C16_MappingsMergeOthersReplace ==
    (mergeResult.done /\ mergeIncoming.present)
    => \A k \in Keys :
        LET old == mergeExisting[k]
            value == mergeIncoming.bag[k]
            merged == mergeResult.once[k]
        IN value.t \notin {"undefined", "null"}
           => IF old.t = "object" /\ value.t = "object"
              THEN /\ merged.t = "object"
                   /\ \A j \in SubKeys :
                        merged.o[j] = IF value.o[j].t \in {"undefined", "null"}
                                      THEN old.o[j] ELSE value.o[j]
              ELSE IF old.t = "array" /\ value.t = "array" THEN TRUE
              ELSE merged = value

----------------------------------------------------------------------------
(* Properties of the checkpoint handler's responses *)

\* the request bodies of an action: goto carries a target, the others none
checkpointRequests(action) ==
    CASE action = "next" -> [target : {""}, data : NextPatches]
      [] action = "back" -> [target : {""}, data : BackPatches]
      [] action = "goto" -> GotoRequests
      [] action = "complete" -> [target : {""}, data : CompletePatches]

\* C17: a rejected next, goto or complete request leaves the session's
\* checkpoint, data bag and history as they were; an accepted one stores the
\* patched data bag and, where the checkpoint changes, the new checkpoint
\* with its history entry.
C17_RejectedKeepsAcceptedCommits ==
    [][\A sid \in SessionIds, action \in {"next", "goto", "complete"} :
        \A request \in checkpointRequests(action) :
            (/\ last'.action = action
             /\ sessions[sid].exists
             /\ TransitionPOST(sid, action, request.target, request.data))
            => IF last'.status # 200
               THEN UNCHANGED <<sessions, history>>
               ELSE /\ sessions'[sid].checkpointData
                        = JsonClone(requestData(sid, request.data))
                    /\ sessions'[sid].currentCheckpoint # sessions[sid].currentCheckpoint
                       => /\ Len(history'[sid]) = Len(history[sid]) + 1
                          /\ history'[sid][Len(history'[sid])].checkpoint
                                = sessions'[sid].currentCheckpoint
                          /\ ~history'[sid][Len(history'[sid])].exitedAt]_vars

\* C18: every 400 answer to a next, goto or complete request carries the
\* missingFields list of the session's current checkpoint.
C18_RejectionListsMissingFields ==
    [][\A sid \in SessionIds, action \in {"next", "goto", "complete"} :
        \A request \in checkpointRequests(action) :
            (/\ last'.action = action
             /\ last'.status = 400
             /\ sessions[sid].exists
             /\ TransitionPOST(sid, action, request.target, request.data))
            => LET response == transitionResponse(sessions[sid], action, request.target,
                                                  request.data)
               IN /\ response.hasMissing
                  /\ response.missingFields
                        = getMissingFields(sessions[sid].currentCheckpoint,
                                           requestData(sid, request.data))]_vars

\* C19: a goto request without a target, or with a target that is not a
\* checkpoint, is answered 400 and changes nothing in the store.
C19_GotoNeedsKnownTarget ==
    [][\A sid \in SessionIds : \A request \in GotoRequests :
        (/\ last'.action = "goto"
         /\ sessions[sid].exists
         /\ request.target \notin Checkpoints
         /\ TransitionPOST(sid, "goto", request.target, request.data))
        => /\ last'.status = 400
           /\ UNCHANGED storeVars]_vars

----------------------------------------------------------------------------
(* Properties of the fallback reply *)

\* the reply fields of a ConversationResponse
replyOf(response) ==
    [message |-> response.message, extractedData |-> response.extractedData,
     confirmationNeeded |-> response.confirmationNeeded, uiAction |-> response.uiAction]

C21_GreetingAdvancesWelcome ==
    [][\A sid \in SessionIds :
        (/\ last'.op = "message"
         /\ sessions[sid].exists
         /\ sessions[sid].currentCheckpoint = "WELCOME"
         /\ MessagePOST(sid, "hi there", NoProvider))
        => LET responseData == getFallbackResponse("WELCOME", "hi there")
               response == processMessage("hi there", "WELCOME",
                                          sessions[sid].checkpointData, NoProvider)
           IN /\ hasGreeting("hi there")
              /\ response.extractedData.present
              /\ response.extractedData.bag["greeted"] = Bool(TRUE)
              /\ responseData.readyToAdvance
              /\ response.shouldAdvanceCheckpoint
              /\ sessions'[sid].currentCheckpoint = "BUSINESS_INFO"
              /\ sessions'[sid].checkpointData["greeted"] = Bool(TRUE)]_vars

\* one chat message has moved a fresh session from WELCOME to BUSINESS_INFO
\* and stored greeted = true
C21_Witness ==
    \E sid \in SessionIds :
        /\ last.op = "message" /\ last.status = 200
        /\ messageCount[sid] = 2
        /\ sessions[sid].currentCheckpoint = "BUSINESS_INFO"
        /\ sessions[sid].checkpointData["greeted"] = Bool(TRUE)
        /\ Len(history[sid]) = 2
        /\ history[sid][1].checkpoint = "WELCOME" /\ history[sid][1].exitedAt
        /\ history[sid][1].data["greeted"] = Bool(TRUE)

\* C22: a provider reply that holds no parseable object is passed on whole
\* as the message with extractedData null and readyToAdvance false, and the
\* chat message it answers changes neither the data bag nor the checkpoint
\* of the session.
C22_UnparseableReplyPassesThrough ==
    [][\A sid \in SessionIds, responseText \in ProviderTexts :
        (/\ last'.op = "message"
         /\ ~responseText.parses
         /\ sessions[sid].exists
         /\ MessagePOST(sid, "what now", parseAIResponse(responseText)))
        => LET responseData == parseAIResponse(responseText)
               response == processMessage("what now", sessions[sid].currentCheckpoint,
                                          sessions[sid].checkpointData, responseData)
           IN /\ responseData.message = responseText.text
              /\ responseData.extractedData = NoData
              /\ ~responseData.readyToAdvance
              /\ response.message = responseText.text
              /\ ~response.shouldAdvanceCheckpoint
              /\ last'.status = 200
              /\ sessions'[sid].checkpointData = sessions[sid].checkpointData
              /\ sessions'[sid].currentCheckpoint = sessions[sid].currentCheckpoint]_vars

\* a chat message answered with plain text has left a session at
\* BUSINESS_INFO with the bag it had
C22_Witness ==
    \E sid \in SessionIds :
        /\ last.op = "message" /\ last.status = 200
        /\ messageCount[sid] = 2
        /\ ~PlainText.parses
        /\ parseAIResponse(PlainText).message = "Got it."
        /\ sessions[sid].currentCheckpoint = "BUSINESS_INFO"
        /\ sessions[sid].checkpointData = Spread(InitialData, Greeted)
        /\ Len(history[sid]) = 2

\* C23: the data of a checkpoint request is folded into the stored bag by
\* the rules of mergeExtractedData: the bag the handler decides on and
\* stores equals merge(existing, patch).
C23_PatchIsMerge ==
    mergeResult.done => mergeResult.patched = mergeResult.once

\* C24: a chat message never removes a key from the stored data bag: every
\* key the bag holds before the message it holds after it, and a nested
\* mapping that stays a mapping keeps each of its fields.
C24_ChatKeepsKeys ==
    [][\A sid \in SessionIds :
        (last'.op = "message" /\ last'.status = 200 /\ sessions[sid].exists)
        => \A k \in Keys :
            LET old == sessions[sid].checkpointData[k]
                new == sessions'[sid].checkpointData[k]
            IN /\ old.t # "undefined" => new.t # "undefined"
               /\ (old.t = "object" /\ new.t = "object")
                  => \A j \in SubKeys : old.o[j].t # "undefined" => new.o[j].t # "undefined"]_vars

\* a chat message whose reply extracted a business record has been merged
\* into the bag of a fresh session, which still holds its welcome entry
C24_Witness ==
    \E sid \in SessionIds :
        /\ last.op = "message" /\ last.status = 200
        /\ messageCount[sid] = 2
        /\ sessions[sid].currentCheckpoint = "WELCOME"
        /\ sessions[sid].checkpointData = mergeExtractedData(InitialData, Data(PartialBusiness))
        /\ sessions[sid].checkpointData["welcome"] = InitialData["welcome"]
        /\ sessions[sid].checkpointData["businessName"] = Str("Acme")

----------------------------------------------------------------------------
(* Properties of the missing-fields functions *)

\* the test a required field has to pass: address holds street, city, state
\* and zip, services is a sequence of at least one element, any other field
\* is a non-empty scalar, sequence or mapping
fieldSatisfied(field, data) ==
    LET value == data[field] IN
    CASE field = "address" ->
            \A j \in {"street", "city", "state", "zip"} : Truthy(Field(value, j))
      [] field = "services" -> value.t = "array" /\ Len(value.a) >= 1
      [] value.t = "array" -> Len(value.a) >= 1
      [] value.t = "object" -> KeyCount(value) >= 1
      [] OTHER -> ~IsBlank(value)

\* missing lists exactly the unsatisfied fields of required, in the order
\* of required
listsUnsatisfied(missing, required, data) ==
    /\ \A i \in 1..Len(required) :
            (\E h \in 1..Len(missing) : missing[h] = required[i])
            <=> ~fieldSatisfied(required[i], data)
    /\ \A h \in 1..Len(missing) : \E i \in 1..Len(required) : missing[h] = required[i]
    /\ \A g, h \in 1..Len(missing) :
            g < h => \E i, j \in 1..Len(required) :
                        i < j /\ required[i] = missing[g] /\ required[j] = missing[h]

\* C25: getMissingFields, of the state machine and of the prompt tables
\* alike, returns exactly the unsatisfied required fields in declaration
\* order: businessName, email, phone, address, services for the empty bag at
\* BUSINESS_INFO, and nothing once a full business record is merged in.
C25_MissingFieldsInOrder ==
    evResult.done
    => \A missing \in {evResult.missingFields, evResult.promptMissingFields} :
        /\ listsUnsatisfied(missing, getRequiredFields(evCheckpoint), evData)
        /\ (evCheckpoint = "BUSINESS_INFO" /\ evData = EmptyBag)
           => missing = <<"businessName", "email", "phone", "address", "services">>
        /\ (/\ evCheckpoint = "BUSINESS_INFO"
            /\ evData = mergeExtractedData(EmptyBag, Data(BusinessRecord)))
           => missing = <<>>

----------------------------------------------------------------------------
(* Properties of requests cut off between two store writes *)

\* C26: after a transition or chat request was cut off between two of its
\* store writes, the session has exactly one open history entry and the
\* stored current checkpoint is the checkpoint of that entry.
C26_CheckpointFollowsOpenEntry ==
    \A sid \in SessionIds :
        (last.op = "crash" /\ last.sid = sid)
        => LET open == {i \in DOMAIN history[sid] : ~history[sid][i].exitedAt} IN
           /\ Cardinality(open) = 1
           /\ \A i \in open : history[sid][i].checkpoint = sessions[sid].currentCheckpoint

----------------------------------------------------------------------------
(* Two sessions under the requests of their clients *)

\* both sessions have been created: each is at WELCOME with its open entry
InitTwo ==
    /\ sessions = [i \in TwoSessions |->
                    [exists |-> TRUE, currentCheckpoint |-> "WELCOME",
                     checkpointData |-> InitialData, completedAt |-> FALSE]]
    /\ history = [i \in TwoSessions |-> historyCreate(<<>>, "WELCOME")]
    /\ messageCount = [i \in TwoSessions |-> 0]
    /\ clientStatus = "ONBOARDING"
    /\ last = NoRequest
    /\ actor = createActor
    /\ evCheckpoint = "WELCOME"
    /\ evData = EmptyBag
    /\ evResult = NoResult
    /\ mergeExisting = EmptyBag
    /\ mergeIncoming = NoData
    /\ mergeResult = NoMerge
    /\ writer = NoWriter
    /\ service = NoService
    /\ chat = NoChat
    /\ inflight = NoInflight

\* next requests without data, with greeted and with a business record; chat
\* messages answered by the fallback and by a provider reply
NextTwo ==
    \/ \E sid \in TwoSessions, data \in {NoData, Data(Greeted), Data(BusinessRecord)} :
            TransitionPOST(sid, "next", "", data) /\ UNCHANGED <<actor, evalVars>>
    \/ \E sid \in TwoSessions :
            TransitionPOST(sid, "back", "", NoData) /\ UNCHANGED <<actor, evalVars>>
    \/ \E sid \in TwoSessions :
            TransitionPOST(sid, "goto", "WELCOME", Data(PartialBusiness))
            /\ UNCHANGED <<actor, evalVars>>
    \/ \E sid \in TwoSessions,
          provider \in {NoProvider,
                        parseAIResponse(ResponseText("{...}", TRUE, "Got it.",
                                                     Data(PartialBusiness), TRUE))} :
            MessagePOST(sid, "hi there", provider) /\ UNCHANGED <<actor, evalVars>>

SpecTwo == InitTwo /\ [][NextTwo]_vars

----------------------------------------------------------------------------
(* Two chat messages of one session handled at the same time *)

\* the engine's answer to the request, computed from the row the request read
inflightResponse(r) ==
    processMessage(inflight[r].content, inflight[r].session.currentCheckpoint,
                   inflight[r].session.checkpointData, inflight[r].provider)

\* the bag the request stores: the row it read merged with what it extracted
updatedCheckpointDataFromExtraction(session, response) ==
    mergeExtractedData(EmptyBag, response.extractedData)

updatedCheckpointData(session, response) ==
    mergeExtractedData(session.checkpointData, response.extractedData)

\* prisma.onboardingSession.findUnique of the request, messages included
Read(r, content, provider) ==
    /\ inflight[r].phase = "idle"
    /\ sessions[serviceSession].exists
    /\ inflight' = [inflight EXCEPT ![r] =
            [phase |-> "read", session |-> sessions[serviceSession],
             messages |-> messageCount[serviceSession],
             content |-> content, provider |-> provider]]
    /\ last' = [NoRequest EXCEPT !.op = "read", !.action = r, !.sid = serviceSession]
    /\ UNCHANGED <<storeVars, actor, evCheckpoint, evData, evResult, mergeVars, writer,
                   service, chat>>

\* the rest of the handler: both message rows, the history rows and the
\* session row, whose bag is the one merged from the row the request read
Commit(r) ==
    LET sid == serviceSession
        session == inflight[r].session
        response == inflightResponse(r)
        bag == updatedCheckpointData(session, response)
        advanced == response.shouldAdvanceCheckpoint /\ response.nextCheckpoint # ""
    IN
    /\ inflight[r].phase = "read"
    /\ inflight' = [inflight EXCEPT ![r].phase = "done"]
    /\ messageCount' = [messageCount EXCEPT ![sid] = @ + 2]
    /\ history' = updateWhere(history, sid,
            IF advanced
            THEN historyExit(historyCreate(history[sid], response.nextCheckpoint),
                             session.currentCheckpoint, JsonClone(bag))
            ELSE history[sid])
    /\ sessions' = updateWhere(sessions, sid,
            [sessions[sid] EXCEPT
                !.checkpointData = bag,
                !.currentCheckpoint = IF advanced THEN response.nextCheckpoint ELSE @,
                !.completedAt = (advanced /\ response.nextCheckpoint = "COMPLETED") \/ @])
    /\ clientStatus' = IF advanced /\ response.nextCheckpoint = "COMPLETED"
                       THEN "ACTIVE" ELSE clientStatus
    /\ last' = [NoRequest EXCEPT !.op = "message", !.action = r, !.sid = sid, !.status = 200]
    /\ UNCHANGED <<actor, evCheckpoint, evData, evResult, mergeVars, writer, service, chat>>

NextRace ==
    \/ SessionPOST /\ ~sessions[serviceSession].exists /\ UNCHANGED <<actor, evalVars>>
    \/ \E r \in DOMAIN inflight, content \in Texts : Read(r, content, NoProvider)
    \/ \E r \in DOMAIN inflight, provider \in Replies : Read(r, "what now", provider)
    \/ \E r \in DOMAIN inflight : Commit(r)

SpecRace == Init /\ [][NextRace]_vars

----------------------------------------------------------------------------
(* The conversation history of a chat message *)

MaxMessages == 34

\* the message rows of a session that has n of them, oldest first: the
\* handler creates a USER row and then an ASSISTANT row; id stands for the
\* row's content
messageRows(n) ==
    [i \in 1..n |-> [id |-> i, role |-> IF i % 2 = 1 THEN "USER" ELSE "ASSISTANT"]]

\* include: { messages: { orderBy: { createdAt: 'asc' }, take: 30 } }
take == 30
findMessages(rows) == SubSeq(rows, 1, IF Len(rows) < take THEN Len(rows) ELSE take)

\* Array.prototype.slice(-count)
sliceLast(array, count) ==
    SubSeq(array, IF Len(array) > count THEN Len(array) - count + 1 ELSE 1, Len(array))

maxHistoryMessages == 20

\* a Content of the provider: role and the text of the row
Content(msg) == [role |-> IF msg.role = "USER" THEN "user" ELSE "model", text |-> msg.id]

RECURSIVE pushContents(_)
pushContents(recentHistory) ==
    IF recentHistory = <<>> THEN <<>>
    ELSE LET msg == Head(recentHistory) IN
         (IF msg.role \in {"USER", "ASSISTANT"} THEN <<Content(msg)>> ELSE <<>>)
         \o pushContents(Tail(recentHistory))

buildConversationHistory(messageHistory) ==
    pushContents(sliceLast(messageHistory, maxHistoryMessages))

\* a chat message of the session: the rows are read, the history is built
\* from them, and the USER and ASSISTANT rows of the exchange are created
Chat(sid) ==
    /\ chat.messages[sid] + 2 <= MaxMessages
    /\ chat' = [messages |-> [chat.messages EXCEPT ![sid] = @ + 2],
                sid |-> sid,
                handed |-> buildConversationHistory(
                              findMessages(messageRows(chat.messages[sid])))]
    /\ UNCHANGED <<storeVars, last, actor, evCheckpoint, evData, evResult, mergeVars,
                   writer, service, inflight>>

SpecChat == Init /\ [][\E sid \in TwoSessions : Chat(sid)]_vars

----------------------------------------------------------------------------
(* Properties of the OnboardingStateService *)

\* C27: once a service whose actor has taken an event has been stopped, the
\* session row holds every transition and data update the service accepted:
\* the row's checkpoint and data are those of the actor's last snapshot.
C27_AcceptedIsSaved ==
    (last.op = "service" /\ last.action = "stop" /\ service.sent)
    => /\ sessions[serviceSession].currentCheckpoint = getCheckpointFromState(actor.value)
       /\ sessions[serviceSession].checkpointData = JsonClone(actor.checkpointData)

\* C36: right after the service has been initialized for an existing
\* session, its current checkpoint and checkpoint data are the stored ones.
C36_InitializeRestores ==
    (last.op = "service" /\ last.action = "initialize")
    => /\ getCheckpointFromState(actor.value) = sessions[serviceSession].currentCheckpoint
       /\ JsonClone(actor.checkpointData) = sessions[serviceSession].checkpointData

----------------------------------------------------------------------------
(* Properties of the confirmed flag *)

\* C28: when a checkpoint request or a chat message changes the data of a
\* checkpoint before REVIEW (any key but confirmed) in a session that has
\* reached REVIEW (it is there or has a history entry of it), the stored
\* confirmed flag is not truthy afterwards.
C28_EarlierChangeResetsConfirmed ==
    [][\A sid \in SessionIds :
        (/\ last'.op \in {"transition", "message"}
         /\ last'.sid = sid
         /\ sessions[sid].exists
         /\ \/ sessions[sid].currentCheckpoint = "REVIEW"
            \/ \E i \in DOMAIN history[sid] : history[sid][i].checkpoint = "REVIEW"
         /\ \E k \in Keys \ {"confirmed"} :
                sessions'[sid].checkpointData[k] # sessions[sid].checkpointData[k])
        => ~Truthy(sessions'[sid].checkpointData["confirmed"])]_vars

----------------------------------------------------------------------------
(* Properties of the conversation history *)

\* C29: the history handed to the provider for a chat message is the
\* session's most recent rows before the new utterance, at most
\* maxHistoryMessages of them, oldest first.
C29_HistoryIsMostRecent ==
    chat.sid # ""
    => LET before == chat.messages[chat.sid] - 2
           count == IF before < maxHistoryMessages THEN before ELSE maxHistoryMessages
       IN chat.handed =
            [i \in 1..count |-> Content(messageRows(before)[before - count + i])]

----------------------------------------------------------------------------
(* Properties of two sessions *)

\* C30: a request for one session leaves the current checkpoint, the data bag
\* and the history entries of every other session as they were.
C30_OtherSessionsUnchanged ==
    [][\A sid \in TwoSessions :
        last'.sid # sid
        => /\ sessions'[sid].currentCheckpoint = sessions[sid].currentCheckpoint
           /\ sessions'[sid].checkpointData = sessions[sid].checkpointData
           /\ history'[sid] = history[sid]]_vars

\* a request has moved s1 to BUSINESS_INFO while s2 is at DOMAIN_ACCESS with
\* its business record
C30_Witness ==
    /\ last.op = "transition" /\ last.sid = "s1" /\ last.status = 200
    /\ sessions["s1"].currentCheckpoint = "BUSINESS_INFO"
    /\ Len(history["s1"]) = 2
    /\ sessions["s2"].currentCheckpoint = "DOMAIN_ACCESS"
    /\ sessions["s2"].checkpointData["businessName"] = Str("Acme")
    /\ Len(history["s2"]) = 3

----------------------------------------------------------------------------
(* Properties of the completion percentage *)

\* C31: the completion percentage of the evaluated checkpoint is the same
\* whatever the data bag, 0 at WELCOME, 100 at COMPLETED, and greater than
\* the percentage of every checkpoint before it in the registry order.
C31_PercentageFollowsOrder ==
    evResult.done
    => /\ evCheckpoint = "WELCOME" => evResult.completionPercentage = 0
       /\ evCheckpoint = "COMPLETED" => evResult.completionPercentage = 100
       /\ \A c \in Checkpoints :
            /\ indexOf(c) < indexOf(evCheckpoint)
               => getCompletionPercentage(c) < evResult.completionPercentage
            /\ c = evCheckpoint
               => getCompletionPercentage(c) = evResult.completionPercentage

\* the percentage of GBP has been computed for a bag that holds a business record
C31_Witness ==
    /\ evResult.done
    /\ evCheckpoint = "GBP"
    /\ evData = BusinessRecord
    /\ evResult.completionPercentage = 50

----------------------------------------------------------------------------
(* Properties of the move to COMPLETED *)

\* C32: every checkpoint request and every chat message that changes a
\* session's checkpoint to COMPLETED starts from REVIEW and stores a data bag
\* whose confirmed is the boolean true.
C32_CompletedFromConfirmedReview ==
    [][\A sid \in SessionIds :
        (/\ last'.op \in {"transition", "message"}
         /\ sessions[sid].exists
         /\ sessions[sid].currentCheckpoint # "COMPLETED"
         /\ sessions'[sid].currentCheckpoint = "COMPLETED")
        => /\ sessions[sid].currentCheckpoint = "REVIEW"
           /\ IsTrue(sessions'[sid].checkpointData["confirmed"])]_vars

----------------------------------------------------------------------------
(* Properties of the two completeness checks *)

\* C33: for every checkpoint and data bag, isCheckpointComplete of the
\* orchestrator and canAdvance of the state machine give the same answer.
C33_ChecksAgree ==
    evResult.done => (evResult.isCheckpointComplete <=> evResult.canAdvance)

----------------------------------------------------------------------------
(* Properties of completedAt *)

\* C34: in every reachable state a session's completedAt is set if and only
\* if its current checkpoint is COMPLETED.
C34_CompletedAtIffCompleted ==
    \A sid \in SessionIds :
        sessions[sid].exists
        => (sessions[sid].completedAt <=> sessions[sid].currentCheckpoint = "COMPLETED")

----------------------------------------------------------------------------
(* Properties of the history written by a checkpoint change *)

----------------------------------------------------------------------------
(* Properties of the machine against the checkpoint route *)

\* C37: for every checkpoint and data bag, the machine accepts NEXT, BACK
\* and COMPLETE exactly when the checkpoint route accepts next, back and
\* complete, and both move to the same checkpoint.
C37_MachineMatchesRoute ==
    evResult.done
    => /\ evResult.machine["NEXT"] = evResult.route["next"]
       /\ evResult.machine["BACK"] = evResult.route["back"]
       /\ evResult.machine["COMPLETE"] = evResult.route["complete"]

----------------------------------------------------------------------------
(* Properties of a successful request that carries data *)

\* C38: when a next, back, goto or complete request that carries a data
\* patch is answered with 200, the stored data bag is the patched one, and
\* canAdvance and missingFields of the response are those of the stored
\* checkpoint and data bag.
C38_SuccessStoresPatch ==
    [][\A sid \in SessionIds, action \in {"next", "back", "goto", "complete"} :
        \A request \in checkpointRequests(action) :
            (/\ last'.action = action
             /\ last'.status = 200
             /\ request.data.present
             /\ sessions[sid].exists
             /\ TransitionPOST(sid, action, request.target, request.data))
            => LET response == transitionResponse(sessions[sid], action, request.target,
                                                  request.data)
                   stored == sessions'[sid]
               IN /\ stored.checkpointData = JsonClone(requestData(sid, request.data))
                  /\ response.canAdvance
                        = canAdvance(stored.currentCheckpoint, stored.checkpointData)
                  /\ response.missingFields
                        = getMissingFields(stored.currentCheckpoint, stored.checkpointData)]_vars

----------------------------------------------------------------------------
(* Properties of two chat messages handled at the same time *)

\* C39 as stated: once two chat-message requests of a session have both made
\* their writes, however their reads and writes were interleaved, the stored
\* data bag holds every field either of them extracted.
C39_BothExtractionsStored ==
    (\A r \in DOMAIN inflight : inflight[r].phase = "done")
    => \A r \in DOMAIN inflight :
        LET extractedData == inflightResponse(r).extractedData IN
        extractedData.present
        => \A k \in Keys :
            extractedData.bag[k].t \notin {"undefined", "null"}
            => sessions[serviceSession].checkpointData[k].t # "undefined"

\* C39 as it holds: when the two requests were handled one after the other
\* (the second read the session after the first had made its writes, so it
\* read the first's two message rows), the stored data bag holds every field
\* either of them extracted.
C39_SerializedExtractionsStored ==
    /\ \A r \in DOMAIN inflight : inflight[r].phase = "done"
    /\ \E first, second \in DOMAIN inflight :
        inflight[second].messages >= inflight[first].messages + 2
    => \A r \in DOMAIN inflight :
        LET extractedData == inflightResponse(r).extractedData IN
        extractedData.present
        => \A k \in Keys :
            extractedData.bag[k].t \notin {"undefined", "null"}
            => sessions[serviceSession].checkpointData[k].t # "undefined"

\* two requests handled one after the other extracted different fields, and
\* the stored bag holds the fields of both
C39_Witness ==
    /\ \A r \in DOMAIN inflight : inflight[r].phase = "done"
    /\ inflight["b"].messages >= inflight["a"].messages + 2
    /\ inflightResponse("a").extractedData.present
    /\ inflightResponse("b").extractedData.present
    /\ \E k1, k2 \in Keys :
        /\ k1 # k2
        /\ inflightResponse("a").extractedData.bag[k1].t \notin {"undefined", "null"}
        /\ inflightResponse("b").extractedData.bag[k1].t = "undefined"
        /\ inflightResponse("b").extractedData.bag[k2].t \notin {"undefined", "null"}
        /\ inflight["a"].session.checkpointData[k1].t = "undefined"
        /\ inflight["b"].session.checkpointData[k2].t = "undefined"
        /\ sessions[serviceSession].checkpointData[k1].t # "undefined"
        /\ sessions[serviceSession].checkpointData[k2].t # "undefined"

====
